---- MODULE Spec2Model ----
(***************************************************************************)
(* Model of the dataflow multi-agent layer (src/agent).                    *)
(*                                                                         *)
(*   Spec       the supervisor state machine of orchestrator.py and        *)
(*              langgraph_orchestrator.py (one run of process_request)     *)
(*   SpecFair   Spec with weak fairness of the graph runner                *)
(*   SpecExec   BaseAgent.execute against the execution-record table       *)
(*   SpecLogic  the LLM steps of the Metadata, Entitlement and Aggregation *)
(*              agents' _execute_logic                                     *)
(*   SpecData   DataAgent._execute_logic: tool discovery, selection and    *)
(*              execution over the configured MCP servers                  *)
(*   SpecPair   Orchestrator and LangGraphOrchestrator run side by side on *)
(*              the same LLM replies and agent outcomes                    *)
(*   SpecChat   the /api/chat endpoint of app.py: the message handler and  *)
(*              the response stream around the session queue               *)
(*   SpecMcp    handle_mcp_request of the demo and denodo HTTP MCP servers *)
(*   SpecResearch  the multi_agent_research tool of src/mcp/agent/server.py *)
(*              calling the agent server of src/agent/server.py            *)
(*   SpecClient the Azure OpenAI client: configuration, initialize and the *)
(*              global client of get_azure_openai_client                   *)
(***************************************************************************)
EXTENDS Integers, Sequences, FiniteSets, TLC

VARIABLES
    orch,                   \* which orchestrator class runs the graph
    node,                   \* the graph node that runs next ("END" = finished)
    metadata_results,       \* DataflowState.metadata_results
    entitlement_results,    \* DataflowState.entitlement_results
    data_results,           \* DataflowState.data_results
    aggregation_results,    \* DataflowState.aggregation_results
    current_agent,          \* DataflowState.current_agent
    workflow_status,        \* DataflowState.workflow_status
    error_count,            \* DataflowState.error_count
    total_agents_executed,  \* DataflowState.total_agents_executed
    completed_at,           \* DataflowState.completed_at ("None" or "set")
    llm_response,           \* the LLM outcome the last supervisor run saw
    next_agent,             \* the decision of the last supervisor run
    agent_run,              \* what the last agent node run did
    sequential,             \* every decision so far by fallback, every execute returned
    order,                  \* agents dispatched while the run is sequential
    executions,             \* subagent_executions table (SpecExec)
    exec_call,              \* inputs of the last BaseAgent.execute call (SpecExec)
    exec_return,            \* outcome of the last BaseAgent.execute call (SpecExec)
    la_agent,               \* agent whose _execute_logic runs (SpecLogic)
    la_steps,               \* LLM steps done so far in that run (SpecLogic)
    la_return,              \* outcome of that _execute_logic run (SpecLogic)
    mcp_servers,            \* DataAgent.mcp_servers, in dict order (SpecData)
    available_tools,        \* DataAgent.available_tools keys, in dict order (SpecData)
    da_pc,                  \* position inside DataAgent._execute_logic (SpecData)
    da_responses,           \* what each server answered to tools/list in this run
    da_context,             \* the context fields the fallback selection read
    da_selection,           \* the tool_selection dict of this run
    da_sent,                \* tools/call requests posted in this run
    da_results,             \* tool_results of this run
    da_return,              \* how the last _execute_logic run ended
    pair_o,                 \* DataflowState of the Orchestrator run (SpecPair)
    pair_l,                 \* DataflowState of the LangGraphOrchestrator run (SpecPair)
    pair_denied,            \* the LangGraph data node has denied access (SpecPair)
    session_queues,         \* app.py session_queues: session id -> queued items (SpecChat)
    chat_session,           \* session id of the current /api/chat request
    chat_requests,          \* number of /api/chat requests so far
    chat_handler,           \* handle_message of the current request: idle, running, finished
    chat_response,          \* response_stream of the current request: none, open, closed
    chat_produced,          \* text chunks the handler has put for the current request
    chat_emitted,           \* events the current response stream has yielded
    mcp_server,             \* the HTTP MCP server that handled the last request (SpecMcp)
    mcp_request,            \* the last HTTP request
    mcp_reply,              \* the HTTP reply to it
    mcp_executed,           \* the tool function it called ("none": no tool ran)
    research_call,          \* arguments and environment of the last multi_agent_research call
    research_http,          \* the HTTP exchange with the agent server in that call
    research_return,        \* the dict multi_agent_research returned
    global_client,          \* azure_openai_client._global_client (SpecClient)
    client_call             \* the last call on the LLM client module and its outcome

orch_vars == <<orch, node, metadata_results, entitlement_results, data_results,
               aggregation_results, current_agent, workflow_status, error_count,
               total_agents_executed, completed_at, llm_response, next_agent,
               agent_run, sequential, order>>
exec_vars == <<executions, exec_call, exec_return>>
logic_vars == <<la_agent, la_steps, la_return>>
data_vars == <<mcp_servers, available_tools, da_pc, da_responses, da_context,
               da_selection, da_sent, da_results, da_return>>
base_vars == <<orch_vars, exec_vars, logic_vars>>
pair_vars == <<pair_o, pair_l, pair_denied>>
chat_vars == <<session_queues, chat_session, chat_requests, chat_handler,
               chat_response, chat_produced, chat_emitted>>
mcp_vars == <<mcp_server, mcp_request, mcp_reply, mcp_executed>>
research_vars == <<research_call, research_http, research_return>>
client_vars == <<global_client, client_call>>
more_vars == <<data_vars, pair_vars, chat_vars, mcp_vars, research_vars, client_vars>>
vars == <<base_vars, more_vars>>

(***************************************************************************)
(* Bounds                                                                  *)
(***************************************************************************)
\* cap on total_agents_executed (the code's counter is unbounded)
MaxExecuted == 5
\* cap on the recorded dispatch order
MaxOrder == 5
\* cap on the number of BaseAgent.execute calls in SpecExec
MaxExecutions == 3
\* cap on the number of /api/chat requests in SpecChat
MaxRequests == 3
\* cap on the text chunks the model stream yields for one request
MaxChunks == 2

(***************************************************************************)
(* Program constants                                                       *)
(***************************************************************************)
\* DataflowState.max_errors default; process_request never overrides it
max_errors == 3

AgentNames == {"metadata_agent", "entitlement_agent", "data_agent", "aggregation_agent"}
Orchestrators == {"Orchestrator", "LangGraphOrchestrator"}

(***************************************************************************)
(* LLM replies of the supervisor call: a reply is a sequence of tokens     *)
(* (words and whitespace), so that strip() and lower() do real work.       *)
(***************************************************************************)
Whitespace == {" ", "\n"}

LLMReplies ==
    { <<"metadata_agent">>, <<"entitlement_agent">>, <<"data_agent">>,
      <<"aggregation_agent">>, <<"complete">>, <<"error">>,
      <<" ", "Data_Agent", "\n">>, <<"COMPLETE">>, <<"error", "\n">>,
      <<"data_agent", " ", "next">>, <<"finish">>, <<>> }

\* the outcomes of self.metadata_agent.call_llm(...): a reply or an exception
LLMOutcomes ==
    { [called |-> TRUE, raised |-> FALSE, text |-> t] : t \in LLMReplies }
        \cup { [called |-> TRUE, raised |-> TRUE, text |-> <<>>] }

NoCall == [called |-> FALSE, raised |-> FALSE, text |-> <<>>]

\* str.lower() on one token
LowerToken(tok) ==
    CASE tok = "Data_Agent" -> "data_agent"
      [] tok = "COMPLETE" -> "complete"
      [] OTHER -> tok

\* str.lower()
Lower(s) == [i \in 1..Len(s) |-> LowerToken(s[i])]

RECURSIVE LStrip(_)
LStrip(s) == IF s # <<>> /\ Head(s) \in Whitespace THEN LStrip(Tail(s)) ELSE s

RECURSIVE RStrip(_)
RStrip(s) ==
    IF s # <<>> /\ s[Len(s)] \in Whitespace THEN RStrip(SubSeq(s, 1, Len(s) - 1)) ELSE s

\* str.strip()
Strip(s) == RStrip(LStrip(s))

valid_options ==
    { <<"metadata_agent">>, <<"entitlement_agent">>, <<"data_agent">>,
      <<"aggregation_agent">>, <<"complete">>, <<"error">> }

(***************************************************************************)
(* Result values of the four result fields                                 *)
(*   kind "None"    the field is unset                                     *)
(*   kind "execute" the dict BaseAgent.execute returned; its top-level     *)
(*                  keys are execution_id, status, results|error,          *)
(*                  execution_time_ms, summary; granted is                 *)
(*                  results.entitlement_summary.access_granted             *)
(*   kind "denied"  {"error": "Access denied by entitlement validation"}   *)
(***************************************************************************)
NoneVal == [kind |-> "None", status |-> "", granted |-> FALSE]
DeniedVal == [kind |-> "denied", status |-> "", granted |-> FALSE]
ExecuteDict(status, granted) == [kind |-> "execute", status |-> status, granted |-> granted]

\* dict.get("entitlement_summary", {}).get("access_granted", False) on a result
\* field: no dict that execute returns has a top-level "entitlement_summary"
TopLevelAccessGranted(res) == FALSE

(***************************************************************************)
(* BaseAgent.execute                                                       *)
(***************************************************************************)
DbOutcomes == {"ok", "raise"}

\* outcomes of _execute_logic: it returns a dict or raises; granted is the
\* entitlement_summary.access_granted of an entitlement result
LogicOutcomes(agent) ==
    { [outcome |-> "raises", granted |-> FALSE] }
        \cup { [outcome |-> "returns", granted |-> g] :
                 g \in (IF agent = "entitlement_agent" THEN BOOLEAN ELSE {FALSE}) }

\* a plausible slip: an exception of the agent logic is not caught
execute_propagates(create, logic, upd_completed, upd_failed) ==
    IF create = "raise"
    THEN [raised |-> TRUE, dict |-> NoneVal, payload |-> "db_error",
          record |-> "none", logic |-> "not_run"]
    ELSE IF logic.outcome = "raises"
    THEN [raised |-> TRUE, dict |-> NoneVal, payload |-> "logic_error",
          record |-> "running", logic |-> "raised"]
    ELSE IF upd_completed = "ok"
    THEN [raised |-> FALSE, dict |-> ExecuteDict("completed", logic.granted),
          payload |-> "results", record |-> "completed", logic |-> "returned"]
    ELSE IF upd_failed = "ok"
    THEN [raised |-> FALSE, dict |-> ExecuteDict("failed", FALSE),
          payload |-> "db_error", record |-> "failed", logic |-> "returned"]
    ELSE [raised |-> TRUE, dict |-> NoneVal, payload |-> "db_error",
          record |-> "running", logic |-> "returned"]

\* execute, as a function of what the record creation (before the try), the
\* agent logic, the COMPLETED update (inside the try) and the FAILED update
\* (inside the except) do.
\*   raised   an exception leaves execute
\*   dict     the dict execute returns
\*   payload  what the dict carries: the results, or the text of the caught
\*            exception (the logic's, or the COMPLETED update's); for raised,
\*            the exception that leaves
\*   record   the status the execution record ends in ("none": no record)
\*   logic    what _execute_logic did
execute(create, logic, upd_completed, upd_failed) ==
    IF create = "raise"
    THEN [raised |-> TRUE, dict |-> NoneVal, payload |-> "db_error",
          record |-> "none", logic |-> "not_run"]
    ELSE IF logic.outcome = "returns" /\ upd_completed = "ok"
    THEN [raised |-> FALSE, dict |-> ExecuteDict("completed", logic.granted),
          payload |-> "results", record |-> "completed", logic |-> "returned"]
    ELSE IF upd_failed = "ok"
    THEN [raised |-> FALSE, dict |-> ExecuteDict("failed", FALSE),
          payload |-> IF logic.outcome = "returns" THEN "db_error" ELSE "logic_error",
          record |-> "failed",
          logic |-> IF logic.outcome = "returns" THEN "returned" ELSE "raised"]
    ELSE [raised |-> TRUE, dict |-> NoneVal, payload |-> "db_error",
          record |-> "running",
          logic |-> IF logic.outcome = "returns" THEN "returned" ELSE "raised"]

(***************************************************************************)
(* Supervisor                                                              *)
(***************************************************************************)
\* a plausible slip: data retrieval is scheduled before entitlement validation
fallback_decision_logic_data_first ==
    IF metadata_results = NoneVal THEN "metadata_agent"
    ELSE IF data_results = NoneVal THEN "data_agent"
    ELSE IF entitlement_results = NoneVal THEN "entitlement_agent"
    ELSE IF aggregation_results = NoneVal THEN "aggregation_agent"
    ELSE "complete"

fallback_decision_logic ==
    IF metadata_results = NoneVal THEN "metadata_agent"
    ELSE IF entitlement_results = NoneVal THEN "entitlement_agent"
    ELSE IF data_results = NoneVal THEN "data_agent"
    ELSE IF aggregation_results = NoneVal THEN "aggregation_agent"
    ELSE "complete"

\* a plausible slip: the reply is trimmed but not lower-cased
DecisionNoLower(llm) == Strip(llm.text)

\* the normalized decision: llm_response.strip().lower()
Decision(llm) == Lower(Strip(llm.text))

\* TRUE when _llm_decide_next_agent answers from _fallback_decision_logic
UsesFallback(llm) == llm.raised \/ Decision(llm) \notin valid_options

llm_decide_next_agent(llm) ==
    IF llm.raised THEN fallback_decision_logic
    ELSE IF Decision(llm) \in valid_options THEN Decision(llm)[1]
    ELSE fallback_decision_logic

\* a plausible slip: the breaker trips one error late
MaxErrorsReachedLate == error_count > max_errors

\* "if state.error_count >= state.max_errors"
MaxErrorsReached == error_count >= max_errors

\* a plausible slip: the circuit breaker ends the run without setting the status
SupervisorMaxErrors_keeps_status ==
    /\ node = "supervisor"
    /\ MaxErrorsReached
    /\ node' = "END"
    /\ completed_at' = "set"
    /\ llm_response' = NoCall
    /\ next_agent' = "None"
    /\ agent_run' = [agent |-> "None", logic |-> "not_run", raised |-> FALSE]
    /\ UNCHANGED <<orch, metadata_results, entitlement_results, data_results,
                   aggregation_results, current_agent, error_count, workflow_status,
                   total_agents_executed, sequential, order>>
    /\ UNCHANGED <<exec_vars, logic_vars, more_vars>>

\* the circuit breaker: no LLM call, no dispatch
SupervisorMaxErrors ==
    /\ node = "supervisor"
    /\ MaxErrorsReached
    /\ node' = "END"
    /\ workflow_status' = "failed"
    /\ completed_at' = "set"
    /\ llm_response' = NoCall
    /\ next_agent' = "None"
    /\ agent_run' = [agent |-> "None", logic |-> "not_run", raised |-> FALSE]
    /\ UNCHANGED <<orch, metadata_results, entitlement_results, data_results,
                   aggregation_results, current_agent, error_count,
                   total_agents_executed, sequential, order>>
    /\ UNCHANGED <<exec_vars, logic_vars, more_vars>>

SupervisorDecide ==
    /\ node = "supervisor"
    /\ ~MaxErrorsReached
    /\ \E llm \in LLMOutcomes :
         LET decided == llm_decide_next_agent(llm) IN
           /\ llm_response' = llm
           /\ next_agent' = decided
           /\ sequential' = (sequential /\ UsesFallback(llm))
           /\ IF decided = "complete"
              THEN /\ node' = "END"
                   /\ workflow_status' = "completed"
                   /\ completed_at' = "set"
                   /\ UNCHANGED current_agent
              ELSE IF decided = "error"
              THEN /\ node' = "error_handler"
                   /\ UNCHANGED <<workflow_status, completed_at, current_agent>>
              ELSE /\ node' = decided
                   /\ current_agent' = decided
                   /\ UNCHANGED <<workflow_status, completed_at>>
           /\ order' = IF sequential' /\ decided \in AgentNames /\ Len(order) < MaxOrder
                       THEN Append(order, decided)
                       ELSE IF sequential' THEN order ELSE <<>>
    /\ agent_run' = [agent |-> "None", logic |-> "not_run", raised |-> FALSE]
    /\ UNCHANGED <<orch, metadata_results, entitlement_results, data_results,
                   aggregation_results, error_count, total_agents_executed>>
    /\ UNCHANGED <<exec_vars, logic_vars, more_vars>>

supervisor_agent == SupervisorMaxErrors \/ SupervisorDecide

\* process_request: the workflow_status and success members of the dict it
\* returns for the final state of the graph ("missing": no such key)
process_request(final_status) ==
    [workflow_status |-> IF final_status = "missing" THEN "completed" ELSE final_status,
     success |-> final_status = "completed"]

(***************************************************************************)
(* Agent nodes                                                             *)
(***************************************************************************)
\* the body shared by the four agent nodes: call execute inside try; store
\* the returned dict and count the agent, or count an error when execute
\* raises.  field/field_next are the node's result field now and after.
AgentNode(agent, field, field_next) ==
    /\ \E create \in DbOutcomes, upd_completed \in DbOutcomes, upd_failed \in DbOutcomes,
          logic \in LogicOutcomes(agent) :
         LET r == execute(create, logic, upd_completed, upd_failed) IN
           /\ agent_run' = [agent |-> agent, logic |-> r.logic, raised |-> r.raised]
           /\ IF r.raised
              THEN /\ error_count' = error_count + 1
                   /\ field_next = field
                   /\ UNCHANGED total_agents_executed
              ELSE /\ total_agents_executed < MaxExecuted
                   /\ field_next = r.dict
                   /\ total_agents_executed' = total_agents_executed + 1
                   /\ UNCHANGED error_count
           /\ sequential' = (sequential /\ ~r.raised)
           /\ order' = IF sequential' THEN order ELSE <<>>
    /\ node' = "supervisor"
    /\ llm_response' = NoCall
    /\ next_agent' = "None"
    /\ UNCHANGED <<orch, current_agent, workflow_status, completed_at>>

metadata_agent_node ==
    /\ node = "metadata_agent"
    /\ AgentNode("metadata_agent", metadata_results, metadata_results')
    /\ UNCHANGED <<entitlement_results, data_results, aggregation_results>>
    /\ UNCHANGED <<exec_vars, logic_vars, more_vars>>

entitlement_agent_node ==
    /\ node = "entitlement_agent"
    /\ AgentNode("entitlement_agent", entitlement_results, entitlement_results')
    /\ UNCHANGED <<metadata_results, data_results, aggregation_results>>
    /\ UNCHANGED <<exec_vars, logic_vars, more_vars>>

\* LangGraphOrchestrator only: "Check entitlement first"
DataAccessDenied ==
    /\ orch = "LangGraphOrchestrator"
    /\ entitlement_results # NoneVal
    /\ ~TopLevelAccessGranted(entitlement_results)

\* a plausible slip: the denied branch counts the agent like the normal return
data_agent_node_counts_denied ==
    /\ node = "data_agent"
    /\ IF DataAccessDenied
       THEN /\ data_results' = DeniedVal
            /\ node' = "supervisor"
            /\ agent_run' = [agent |-> "data_agent", logic |-> "not_run", raised |-> FALSE]
            /\ llm_response' = NoCall
            /\ next_agent' = "None"
            /\ total_agents_executed < MaxExecuted
            /\ total_agents_executed' = total_agents_executed + 1
            /\ UNCHANGED <<orch, current_agent, workflow_status, completed_at,
                           error_count, sequential, order>>
       ELSE AgentNode("data_agent", data_results, data_results')
    /\ UNCHANGED <<metadata_results, entitlement_results, aggregation_results>>
    /\ UNCHANGED <<exec_vars, logic_vars, more_vars>>

\* _data_agent_node
data_agent_node ==
    /\ node = "data_agent"
    /\ IF DataAccessDenied
       THEN /\ data_results' = DeniedVal
            /\ node' = "supervisor"
            /\ agent_run' = [agent |-> "data_agent", logic |-> "not_run", raised |-> FALSE]
            /\ llm_response' = NoCall
            /\ next_agent' = "None"
            /\ UNCHANGED <<orch, current_agent, workflow_status, completed_at,
                           error_count, total_agents_executed, sequential, order>>
       ELSE AgentNode("data_agent", data_results, data_results')
    /\ UNCHANGED <<metadata_results, entitlement_results, aggregation_results>>
    /\ UNCHANGED <<exec_vars, logic_vars, more_vars>>

aggregation_agent_node ==
    /\ node = "aggregation_agent"
    /\ AgentNode("aggregation_agent", aggregation_results, aggregation_results')
    /\ UNCHANGED <<metadata_results, entitlement_results, data_results>>
    /\ UNCHANGED <<exec_vars, logic_vars, more_vars>>

\* a plausible slip: "recovery" clears the error counter
error_handler_node_reset ==
    /\ node = "error_handler"
    /\ node' = "supervisor"
    /\ workflow_status' = IF orch = "LangGraphOrchestrator" THEN "recovering"
                          ELSE workflow_status
    /\ error_count' = 0
    /\ llm_response' = NoCall
    /\ next_agent' = "None"
    /\ agent_run' = [agent |-> "None", logic |-> "not_run", raised |-> FALSE]
    /\ UNCHANGED <<orch, metadata_results, entitlement_results, data_results,
                   aggregation_results, current_agent,
                   total_agents_executed, completed_at, sequential, order>>
    /\ UNCHANGED <<exec_vars, logic_vars, more_vars>>

\* Orchestrator only appends a message; LangGraphOrchestrator also sets
\* workflow_status to "recovering"
error_handler_node ==
    /\ node = "error_handler"
    /\ node' = "supervisor"
    /\ workflow_status' = IF orch = "LangGraphOrchestrator" THEN "recovering"
                          ELSE workflow_status
    /\ llm_response' = NoCall
    /\ next_agent' = "None"
    /\ agent_run' = [agent |-> "None", logic |-> "not_run", raised |-> FALSE]
    /\ UNCHANGED <<orch, metadata_results, entitlement_results, data_results,
                   aggregation_results, current_agent, error_count,
                   total_agents_executed, completed_at, sequential, order>>
    /\ UNCHANGED <<exec_vars, logic_vars, more_vars>>

(***************************************************************************)
(* DataAgent (data_agent.py): MCP servers, tool discovery, selection and   *)
(* execution                                                               *)
(***************************************************************************)
\* an entry of a tools/list answer: a tool object with a string name, a tool
\* object whose name is a number (NumName), a tool object without a name
\* (NoName), or something that is not an object (Junk)
NumName == "7"
NoName == ""
Junk == "junk"
ToolNames == {"ask_ai", "query", NumName}

\* the tool lists a server may report
ToolLists ==
    { <<>>, <<"ask_ai">>, <<"ask_ai", "query">>, <<NoName, "query">>,
      <<"ask_ai", Junk>>, <<Junk, "ask_ai">>, <<NumName, "query">> }

\* what a server does with the tools/list POST
NotAsked == [kind |-> "not_asked", tools |-> <<>>]
ListResponses ==
    { [kind |-> k, tools |-> <<>>] :
        k \in {"exception", "http_error", "no_result", "no_tools"} }
    \cup { [kind |-> "tools", tools |-> l] : l \in ToolLists }

\* an entry of the "servers" object of the MCP config file
ServerEntries(name) ==
    { [name |-> name, shape |-> "dict", type |-> "http", url |-> TRUE],
      [name |-> name, shape |-> "dict", type |-> "http", url |-> FALSE],
      [name |-> name, shape |-> "dict", type |-> "stdio", url |-> TRUE],
      [name |-> name, shape |-> "other", type |-> "none", url |-> FALSE] }

\* _load_mcp_config: the "servers" object of the file, {} without a file
McpConfigs ==
    { <<>> } \cup { <<a, b>> : a \in ServerEntries("demoAgent"),
                               b \in ServerEntries("denodoAgent") }

\* the f"{server_name}:{tool_name}" key, kept as the pair it is built from
ToolId(server_name, tool_name) == <<server_name, tool_name>>
ToolIds == { ToolId(s, t) : s \in {"demoAgent", "denodoAgent"}, t \in ToolNames }

Keys(d) == { d[i] : i \in 1..Len(d) }

\* discovered_tools[key] = {...}: a new key goes last, a known key keeps its place
DictPut(d, key) == IF key \in Keys(d) THEN d ELSE Append(d, key)

\* the two guards before the try block
IsHttpWithUrl(server_config) ==
    /\ server_config.type = "http"
    /\ server_config.url

\* the list _get_tools_from_mcp_server returns
get_tools_from_mcp_server(response) ==
    IF response.kind = "tools" THEN response.tools ELSE <<>>

\* the for loop over the tools of one server; an entry that is not an object
\* raises in tool.get and the except branch ends the loop for this server
RECURSIVE AddTools(_, _, _)
AddTools(server_name, tools, discovered_tools) ==
    IF tools = <<>> THEN [raised |-> FALSE, tools |-> discovered_tools]
    ELSE IF Head(tools) = Junk THEN [raised |-> TRUE, tools |-> discovered_tools]
    ELSE IF Head(tools) = NoName
    THEN AddTools(server_name, Tail(tools), discovered_tools)
    ELSE AddTools(server_name, Tail(tools),
                  DictPut(discovered_tools, ToolId(server_name, Head(tools))))

\* _discover_tools_from_mcp_servers from server i on: the dict it returns, or
\* raised when server_config.get fails on an entry that is not an object
RECURSIVE discover_tools_from_mcp_servers(_, _, _, _)
discover_tools_from_mcp_servers(servers, responses, i, discovered_tools) ==
    IF i > Len(servers) THEN [raised |-> FALSE, tools |-> discovered_tools]
    ELSE IF servers[i].shape # "dict" THEN [raised |-> TRUE, tools |-> <<>>]
    ELSE IF ~IsHttpWithUrl(servers[i])
    THEN discover_tools_from_mcp_servers(servers, responses, i + 1, discovered_tools)
    ELSE discover_tools_from_mcp_servers(
             servers, responses, i + 1,
             AddTools(servers[i].name, get_tools_from_mcp_server(responses[i]),
                      discovered_tools).tools)

\* the servers the loop posts tools/list to
Asked(servers, i) ==
    /\ IsHttpWithUrl(servers[i])
    /\ \A j \in 1..i : servers[j].shape = "dict"

ResponsesFor(servers) ==
    { r \in [1..Len(servers) -> ListResponses \cup {NotAsked}] :
        \A i \in 1..Len(servers) : (r[i] = NotAsked) <=> ~Asked(servers, i) }

\* a plausible slip: self.available_tools.update(discovered_tools)
store_discovered_update(old_tools, discovered_tools) ==
    discovered_tools \o SelectSeq(old_tools, LAMBDA k : k \notin Keys(discovered_tools))

\* self.available_tools = discovered_tools
store_discovered(old_tools, discovered_tools) == discovered_tools

\* the context fields _fallback_tool_selection reads: context["query"] (a
\* string, or None as process_request's default leaves it) and which keyword
\* groups occur in the task description and the query
NoContext == [query |-> "unread", keywords |-> "none"]
Contexts ==
    { [query |-> "None", keywords |-> "none"] }
    \cup { [query |-> "str", keywords |-> k] :
             k \in {"none", "enterprise", "synthetic", "both"} }

\* what call_llm and json.loads yield in _llm_select_tools
SelectedLists ==
    { <<>> } \cup { <<a>> : a \in ToolIds } \cup { <<a, b>> : a, b \in ToolIds }
SelectReplies ==
    { [kind |-> k, selected_tools |-> <<>>, execution_strategy |-> "parallel"] :
        k \in {"raise", "not_json", "json_other"} }
    \cup { [kind |-> "json_dict", selected_tools |-> l, execution_strategy |-> e] :
             l \in SelectedLists, e \in {"parallel", "sequential"} }

NoSelection == [method |-> "none", selected_tools |-> <<>>,
                execution_strategy |-> "parallel"]

\* the first for loop of _fallback_tool_selection
RECURSIVE KeywordMatches(_, _)
KeywordMatches(tools, keywords) ==
    IF tools = <<>> THEN <<>>
    ELSE LET tool_id == Head(tools)
             enterprise == IF /\ keywords \in {"enterprise", "both"}
                              /\ tool_id[1] = "denodoAgent"
                           THEN <<tool_id>> ELSE <<>>
             synthetic == IF /\ keywords \in {"synthetic", "both"}
                             /\ tool_id[1] = "demoAgent"
                          THEN <<tool_id>> ELSE <<>>
         IN enterprise \o synthetic \o KeywordMatches(Tail(tools), keywords)

\* the second for loop: the first tool of every server
FirstPerServer(tools) ==
    SelectSeq(tools,
              LAMBDA k : \A j \in 1..Len(tools) :
                            (tools[j][1] = k[1] /\ tools[j] # k) =>
                            \E i \in 1..j : tools[i] = k)

\* _fallback_tool_selection: context.get("query", "").lower() raises on None
fallback_tool_selection(tools, context) ==
    IF context.query = "None"
    THEN [raised |-> TRUE, selection |-> NoSelection]
    ELSE LET matches == KeywordMatches(tools, context.keywords) IN
           [raised |-> FALSE,
            selection |-> [method |-> "fallback",
                           selected_tools |-> IF matches # <<>> THEN matches
                                              ELSE FirstPerServer(tools),
                           execution_strategy |-> "parallel"]]

\* _llm_select_tools
llm_select_tools(tools, reply, context) ==
    IF tools = <<>> THEN [raised |-> FALSE, selection |-> NoSelection]
    ELSE IF reply.kind = "json_dict"
    THEN [raised |-> FALSE,
          selection |-> [method |-> "llm",
                         selected_tools |-> reply.selected_tools,
                         execution_strategy |-> reply.execution_strategy]]
    ELSE fallback_tool_selection(tools, context)

\* _execute_single_mcp_tool: _prepare_tool_arguments raises on a name that is
\* not a string ("ask_ai" in tool_name) before anything is posted; otherwise
\* the request is posted and a result dict comes back whatever the server does
execute_single_mcp_tool(tool_id, outcome) ==
    IF tool_id[2] = NumName
    THEN [raised |-> TRUE, sent |-> <<>>,
          result |-> [tool |-> tool_id, status |-> "error"]]
    ELSE [raised |-> FALSE, sent |-> <<tool_id>>,
          result |-> [tool |-> tool_id,
                      status |-> IF outcome = "result" THEN "success" ELSE "error"]]

\* the tool ids a coroutine is created for
Tasks(tools, selected_tools) == SelectSeq(selected_tools, LAMBDA k : k \in Keys(tools))

\* _execute_selected_tools: the requests posted and tool_results. In the
\* parallel branch the entry of a raised task is labelled selected_tools[i],
\* i the index of the task; in the sequential branch it is labelled tool_id
execute_selected_tools(tools, selection, outcomes) ==
    LET tasks == Tasks(tools, selection.selected_tools)
        run(i) == execute_single_mcp_tool(tasks[i], outcomes[i])
        label(i) == IF selection.execution_strategy = "parallel"
                    THEN selection.selected_tools[i] ELSE tasks[i]
        RECURSIVE Sent(_)
        Sent(i) == IF i > Len(tasks) THEN <<>> ELSE run(i).sent \o Sent(i + 1)
    IN [sent |-> Sent(1),
        results |-> [i \in 1..Len(tasks) |->
                       IF run(i).raised
                       THEN [tool |-> label(i), status |-> "error"]
                       ELSE run(i).result]]

(***************************************************************************)
(* The two orchestrators as functions on a DataflowState record, for       *)
(* running them side by side                                               *)
(***************************************************************************)
\* DataflowState as process_request builds it (the fields the nodes branch on
\* or count in)
InitialState ==
    [node |-> "supervisor", metadata_results |-> NoneVal,
     entitlement_results |-> NoneVal, data_results |-> NoneVal,
     aggregation_results |-> NoneVal, workflow_status |-> "started",
     error_count |-> 0, total_agents_executed |-> 0]

\* what a node consumes: the supervisor an LLM outcome, an agent node the
\* outcomes of the execute call
NodeInputs(n) ==
    IF n = "supervisor"
    THEN { [llm |-> l, create |-> "ok", logic |-> [outcome |-> "returns", granted |-> FALSE],
            upd_completed |-> "ok", upd_failed |-> "ok"] : l \in LLMOutcomes }
    ELSE IF n \in AgentNames
    THEN { [llm |-> NoCall, create |-> c, logic |-> g, upd_completed |-> uc,
            upd_failed |-> uf] :
             c \in DbOutcomes, g \in LogicOutcomes(n), uc \in DbOutcomes,
             uf \in DbOutcomes }
    ELSE { [llm |-> NoCall, create |-> "ok",
            logic |-> [outcome |-> "returns", granted |-> FALSE],
            upd_completed |-> "ok", upd_failed |-> "ok"] }

\* _fallback_decision_logic on a state record
FallbackOf(st) ==
    IF st.metadata_results = NoneVal THEN "metadata_agent"
    ELSE IF st.entitlement_results = NoneVal THEN "entitlement_agent"
    ELSE IF st.data_results = NoneVal THEN "data_agent"
    ELSE IF st.aggregation_results = NoneVal THEN "aggregation_agent"
    ELSE "complete"

\* _llm_decide_next_agent on a state record
DecideOf(st, llm) ==
    IF llm.raised THEN FallbackOf(st)
    ELSE IF Decision(llm) \in valid_options THEN Decision(llm)[1]
    ELSE FallbackOf(st)

\* _supervisor_agent and the routing of the conditional edge
SupervisorOf(st, llm) ==
    IF st.error_count >= max_errors
    THEN [st EXCEPT !.node = "END", !.workflow_status = "failed"]
    ELSE LET decided == DecideOf(st, llm) IN
           IF decided = "complete"
           THEN [st EXCEPT !.node = "END", !.workflow_status = "completed"]
           ELSE IF decided = "error" THEN [st EXCEPT !.node = "error_handler"]
           ELSE [st EXCEPT !.node = decided]

\* the result field an agent node writes
FieldOf(agent) ==
    CASE agent = "metadata_agent" -> "metadata_results"
      [] agent = "entitlement_agent" -> "entitlement_results"
      [] agent = "data_agent" -> "data_results"
      [] agent = "aggregation_agent" -> "aggregation_results"

\* LangGraphOrchestrator._data_agent_node: "Check entitlement first"
DeniedOf(o, st) ==
    /\ o = "LangGraphOrchestrator"
    /\ st.node = "data_agent"
    /\ st.entitlement_results # NoneVal
    /\ ~TopLevelAccessGranted(st.entitlement_results)

\* an agent node
AgentNodeOf(o, st, in) ==
    IF DeniedOf(o, st)
    THEN [st EXCEPT !.node = "supervisor", !.data_results = DeniedVal]
    ELSE LET r == execute(in.create, in.logic, in.upd_completed, in.upd_failed) IN
           IF r.raised
           THEN [st EXCEPT !.node = "supervisor", !.error_count = @ + 1]
           ELSE [st EXCEPT !.node = "supervisor", ![FieldOf(st.node)] = r.dict,
                           !.total_agents_executed = @ + 1]

\* a plausible slip: the LangGraph "recovery" also clears the error counter
ErrorHandlerOf_reset(o, st) ==
    IF o = "LangGraphOrchestrator"
    THEN [st EXCEPT !.node = "supervisor", !.workflow_status = "recovering",
                    !.error_count = 0]
    ELSE [st EXCEPT !.node = "supervisor"]

\* _error_handler_node
ErrorHandlerOf(o, st) ==
    IF o = "LangGraphOrchestrator"
    THEN [st EXCEPT !.node = "supervisor", !.workflow_status = "recovering"]
    ELSE [st EXCEPT !.node = "supervisor"]

\* the node st.node of orchestrator o runs on input in
NodeStep(o, st, in) ==
    IF st.node = "supervisor" THEN SupervisorOf(st, in.llm)
    ELSE IF st.node \in AgentNames THEN AgentNodeOf(o, st, in)
    ELSE IF st.node = "error_handler" THEN ErrorHandlerOf(o, st)
    ELSE st

(***************************************************************************)
(* app.py: session queues, the streaming agent and the response stream     *)
(***************************************************************************)

\* the items handle_message puts on the queue
STREAM_DONE == [type |-> "done", req |-> 0, content |-> ""]
ErrorItem == [type |-> "error", req |-> 0, content |-> ""]
TextItem(req, content) == [type |-> "text", req |-> req, content |-> content]

\* the events response_stream yields
DoneEvent == [type |-> "done", req |-> 0, content |-> ""]
ErrorEvent == [type |-> "error", req |-> 0, content |-> ""]

\* get_or_create_queue: session_queues after the call
get_or_create_queue(queues, session_id) ==
    IF session_id \in DOMAIN queues THEN queues
    ELSE [x \in DOMAIN queues \cup {session_id} |->
            IF x = session_id THEN <<>> ELSE queues[x]]

\* queue.put(item) on the queue of a session
Put(queues, session_id, items) == [queues EXCEPT ![session_id] = @ \o items]

(***************************************************************************)
(* The HTTP MCP servers (src/mcp/demo/http_server.py and                   *)
(* src/mcp/denodo/http_server.py)                                          *)
(***************************************************************************)

\* the "id" member of a request: absent, null, or a value
Ids == {"missing", "null", "1", "abc"}

NoRequest == [http |-> "none", body |-> "none", method |-> "none", id |-> "missing",
              params |-> "missing", name |-> "None", arguments |-> "dict"]

\* the HTTP requests: other HTTP methods, POST bodies that are not a JSON
\* object, and JSON objects
McpRequests ==
    { [NoRequest EXCEPT !.http = h] : h \in {"GET", "OPTIONS"} }
    \cup { [NoRequest EXCEPT !.http = "POST", !.body = b] :
             b \in {"empty", "invalid_json", "array"} }
    \cup { [NoRequest EXCEPT !.http = "POST", !.body = "object", !.method = m,
                             !.id = i, !.params = q] :
             m \in {"tools/list", "tools/call", "initialize",
                    "notifications/initialized", "notifications/cancelled", "ping"},
             i \in Ids, q \in {"missing", "other"} }
    \cup { [NoRequest EXCEPT !.http = "POST", !.body = "object",
                             !.method = "tools/call", !.id = i, !.params = "dict",
                             !.name = n, !.arguments = a] :
             i \in Ids,
             \* params.get("name"): a string, None when absent, or a value that
             \* cannot be looked up in a dict (a JSON array or object)
             n \in {"ask_ai", "ask_database", "health_check", "get_server_info",
                    "no_such_tool", "None", "unhashable"},
             a \in {"dict", "other"} }

\* the names in the tools list that the tools/list branch builds
ListedTools(server) ==
    IF server = "demo" THEN {"ask_ai", "health_check", "get_server_info"}
    ELSE {"ask_database", "health_check", "get_server_info"}

\* a plausible slip: the denodo mapping still carries the demo server's tool
AVAILABLE_TOOLS_copied(server) == {"ask_ai", "health_check", "get_server_info"}

\* the keys of the module's AVAILABLE_TOOLS mapping (self.tools)
AVAILABLE_TOOLS(server) ==
    IF server = "demo" THEN {"ask_ai", "health_check", "get_server_info"}
    ELSE {"ask_database", "health_check", "get_server_info"}

\* request_data.get("id"): None for an absent and for a null id
RequestId(req) == IF req.id = "missing" THEN "null" ELSE req.id

NoneResponse == [kind |-> "None", code |-> 0, id |-> "null", tools |-> {}, size |-> "small"]
ResultResponse(req, tools, size) ==
    [kind |-> "result", code |-> 0, id |-> RequestId(req), tools |-> tools, size |-> size]
ErrorResponse(req, code) ==
    [kind |-> "error", code |-> code, id |-> RequestId(req), tools |-> {}, size |-> "small"]

\* the except branch of _process_mcp_request
InternalError(req) ==
    IF RequestId(req) = "null" THEN NoneResponse ELSE ErrorResponse(req, -32603)

\* the tools/call branch: the response and the tool function that ran
ToolsCall(server, req, outcome) ==
    IF req.params = "other" \/ req.name = "unhashable"
    THEN [response |-> InternalError(req), executed |-> "none"]
    ELSE IF req.name \notin AVAILABLE_TOOLS(server)
    THEN [response |-> ErrorResponse(req, -32601), executed |-> "none"]
    ELSE IF req.name \in {"ask_ai", "ask_database"} /\ req.arguments = "other"
    THEN [response |-> ErrorResponse(req, -32603), executed |-> "none"]
    ELSE IF outcome = "raises"
    THEN [response |-> ErrorResponse(req, -32603), executed |-> req.name]
    ELSE [response |-> ResultResponse(req, {}, outcome), executed |-> req.name]

\* _process_mcp_request on a JSON object
process_mcp_request(server, req, outcome) ==
    CASE req.method = "tools/list" ->
           [response |-> ResultResponse(req, ListedTools(server), "small"),
            executed |-> "none"]
      [] req.method = "tools/call" -> ToolsCall(server, req, outcome)
      [] req.method = "initialize" ->
           [response |-> IF req.params = "other" THEN InternalError(req)
                         ELSE ResultResponse(req, {}, "small"),
            executed |-> "none"]
      [] req.method = "notifications/initialized" ->
           [response |-> NoneResponse, executed |-> "none"]
      [] OTHER ->
           [response |-> IF RequestId(req) = "null" THEN NoneResponse
                         ELSE ErrorResponse(req, -32601),
            executed |-> "none"]

\* the HTTP reply: status, the kind of body ("none": no body; "message": a
\* JSON-RPC result or error with the request's id; "error": an error object
\* without the JSON-RPC envelope; "info": the GET and OPTIONS documents), and
\* how it is sent
HttpReply(status, body, response, transport) ==
    [status |-> status, body |-> body, kind |-> response.kind, code |-> response.code,
     id |-> response.id, tools |-> response.tools, transport |-> transport]

NoReply == HttpReply(0, "none", NoneResponse, "none")

\* handle_mcp_request
handle_mcp_request(server, req, outcome) ==
    IF req.http \in {"GET", "OPTIONS"}
    THEN [reply |-> HttpReply(200, "info", NoneResponse, "json"), executed |-> "none"]
    ELSE IF req.body = "empty"
    THEN [reply |-> HttpReply(400, "error", [NoneResponse EXCEPT !.code = -32600], "json"),
          executed |-> "none"]
    ELSE IF req.body = "invalid_json"
    THEN [reply |-> HttpReply(400, "error", [NoneResponse EXCEPT !.code = -32700], "json"),
          executed |-> "none"]
    ELSE IF req.body = "array"
    THEN [reply |-> HttpReply(500, "error", [NoneResponse EXCEPT !.code = -32603], "json"),
          executed |-> "none"]
    ELSE LET p == process_mcp_request(server, req, outcome) IN
           [reply |-> IF p.response = NoneResponse
                      THEN HttpReply(204, "none", NoneResponse, "json")
                      ELSE HttpReply(200, "message", p.response,
                                     IF p.response.size = "large" THEN "sse" ELSE "json"),
            executed |-> p.executed]

\* _execute_single_mcp_tool on the server's HTTP reply: the status of the
\* tool execution it records. response.json() parses a JSON body; on a
\* text/event-stream body ("data: {...}" lines) or no body it raises, which
\* the except branch turns into an error entry
tool_execution_status(reply) ==
    IF reply.status # 200 THEN "error"
    ELSE IF reply.transport # "json" \/ reply.body = "none" THEN "error"
    ELSE IF reply.body = "message" /\ reply.kind = "result" THEN "success"
    ELSE "error"

(***************************************************************************)
(* The research tool (src/mcp/agent/server.py) and the agent server        *)
(* (src/agent/server.py)                                                   *)
(***************************************************************************)
\* the routes of the agent server's FastAPI app
AgentRoutes ==
    { <<"POST", "/research">>, <<"GET", "/health">>, <<"GET", "/">>,
      <<"GET", "/agents">> }

\* the path multi_agent_research posts to, after the endpoint's base URL
ResearchToolPath == "/execute_research"

\* execute_research: the status and body of its answer
execute_research(payload, workflow) ==
    IF "query" \notin payload.fields \/ payload.query = "None"
    THEN [status |-> 422, body |-> "validation_error", workflow_status |-> "none"]
    ELSE IF workflow = "raises"
    THEN [status |-> 500, body |-> "detail", workflow_status |-> "none"]
    ELSE [status |-> 200, body |-> "ResearchResponse", workflow_status |-> workflow]

\* the agent server's routing of a request
agent_server(method, path, payload, workflow) ==
    IF <<method, path>> \in AgentRoutes
    THEN (IF path = "/research" THEN execute_research(payload, workflow)
          ELSE [status |-> 200, body |-> "info", workflow_status |-> "none"])
    ELSE IF \E m \in {"GET", "POST"} : <<m, path>> \in AgentRoutes
    THEN [status |-> 405, body |-> "detail", workflow_status |-> "none"]
    ELSE [status |-> 404, body |-> "detail", workflow_status |-> "none"]

NoExchange == [path |-> "none", status |-> 0, body |-> "none", workflow_status |-> "none"]

\* multi_agent_research: the HTTP exchange and the returned dict
multi_agent_research(query, session_id, research_mode, server, workflow) ==
    IF Strip(query) = <<>>
    THEN [http |-> NoExchange,
          return |-> [status |-> "none", error |-> "Query cannot be empty",
                      agent_results |-> "none"]]
    ELSE IF server = "timeout"
    THEN [http |-> [NoExchange EXCEPT !.path = ResearchToolPath],
          return |-> [status |-> "failed", error |-> "Research request timed out",
                      agent_results |-> "none"]]
    ELSE IF server = "connect_error"
    THEN [http |-> [NoExchange EXCEPT !.path = ResearchToolPath],
          return |-> [status |-> "failed", error |-> "Could not connect to agent server",
                      agent_results |-> "none"]]
    ELSE LET payload == [fields |-> {"query", "session_id", "research_mode", "user_email"},
                         query |-> "str"]
             response == agent_server("POST", ResearchToolPath, payload, workflow)
         IN [http |-> [path |-> ResearchToolPath, status |-> response.status,
                       body |-> response.body,
                       workflow_status |-> response.workflow_status],
             return |-> IF response.status = 200
                        THEN [status |-> "completed", error |-> "none",
                              agent_results |-> IF response.body = "ResearchResponse"
                                                THEN "results" ELSE "empty"]
                        ELSE [status |-> "failed",
                              error |-> "Agent server returned status",
                              agent_results |-> "none"]]

(***************************************************************************)
(* The LLM client (azure_openai_config.py, azure_openai_client.py)         *)
(***************************************************************************)
\* values of an environment variable or of config.api_key
EnvValues == {"unset", "empty", "set"}

\* bool(value) of such a value
Truthy(value) == value = "set"

\* the environment load_azure_openai_config reads
Environments ==
    [endpoint : EnvValues, deployment_name : EnvValues, api_key : EnvValues]

NoConfig == [kind |-> "None", api_key |-> "unset", use_azure_ad |-> FALSE]

\* an AzureOpenAIConfig object; kind tells where it comes from
ConfigOf(kind, api_key, use_azure_ad) ==
    [kind |-> kind, api_key |-> api_key, use_azure_ad |-> use_azure_ad]

\* configurations built directly from the dataclass
ExplicitConfigs ==
    { ConfigOf("explicit", k, a) : k \in EnvValues, a \in BOOLEAN }

\* a plausible slip: the flag follows the key instead of its absence
use_azure_ad_of_inverted(api_key) == Truthy(api_key)

\* "use_azure_ad = not bool(api_key)"
use_azure_ad_of(api_key) == ~Truthy(api_key)

\* load_azure_openai_config: the config, None, or ValueError
load_azure_openai_config(env) ==
    IF ~Truthy(env.endpoint) THEN [raised |-> "none", config |-> NoConfig]
    ELSE IF ~Truthy(env.deployment_name) THEN [raised |-> "ValueError", config |-> NoConfig]
    ELSE [raised |-> "none",
          config |-> ConfigOf("loaded", env.api_key, use_azure_ad_of(env.api_key))]

\* an AzureOpenAIClient object: its config, the authentication of self.client
\* ("none": self.client is None) and whether a credential object was made
ClientOf(config, auth, credential) ==
    [kind |-> "client", config |-> config, auth |-> auth, credential |-> credential]
NoClient == [kind |-> "None", config |-> NoConfig, auth |-> "none", credential |-> FALSE]

\* AzureOpenAIClient.__init__(config)
new_client(config, env) ==
    LET l == IF config = NoConfig THEN load_azure_openai_config(env)
             ELSE [raised |-> "none", config |-> config] IN
      IF l.raised # "none" THEN [raised |-> l.raised, client |-> NoClient]
      ELSE IF l.config = NoConfig THEN [raised |-> "LLMValidationError", client |-> NoClient]
      ELSE [raised |-> "none", client |-> ClientOf(l.config, "none", FALSE)]

\* what the constructors of the SDK do: both return, DefaultAzureCredential
\* raises, or AsyncAzureOpenAI raises
SdkOutcomes == {"ok", "credential_raises", "client_raises"}

\* AzureOpenAIClient.initialize: the object afterwards and what is raised
initialize(client, sdk) ==
    IF client.config.use_azure_ad
    THEN (CASE sdk = "credential_raises" ->
                 [raised |-> "LLMValidationError", client |-> client]
            [] sdk = "client_raises" ->
                 [raised |-> "LLMValidationError",
                  client |-> ClientOf(client.config, "none", TRUE)]
            [] OTHER ->
                 [raised |-> "none", client |-> ClientOf(client.config, "azure_ad", TRUE)])
    ELSE IF ~Truthy(client.config.api_key) \/ sdk = "client_raises"
    THEN [raised |-> "LLMValidationError", client |-> client]
    ELSE [raised |-> "none", client |-> ClientOf(client.config, "api_key", FALSE)]

\* AzureOpenAIClient.is_ready
is_ready(client) == client.auth # "none"

\* get_azure_openai_client: _global_client afterwards, the returned client,
\* or the exception
get_azure_openai_client(global, env, sdk) ==
    IF global # NoClient THEN [raised |-> "none", global |-> global, returned |-> global]
    ELSE LET n == new_client(NoConfig, env) IN
           IF n.raised # "none"
           THEN [raised |-> n.raised, global |-> NoClient, returned |-> NoClient]
           ELSE LET i == initialize(n.client, sdk) IN
                  IF i.raised # "none"
                  THEN [raised |-> i.raised, global |-> i.client, returned |-> NoClient]
                  ELSE [raised |-> "none", global |-> i.client, returned |-> i.client]

(***************************************************************************)
(* Spec: one run of the graph, from the state process_request builds       *)
(***************************************************************************)
ExecInit ==
    /\ executions = <<>>
    /\ exec_call = [agent |-> "None", create |-> "ok", logic |-> "returns",
                    upd_completed |-> "ok", upd_failed |-> "ok"]
    /\ exec_return = [kind |-> "none", status |-> "", payload |-> ""]

LogicInit ==
    /\ la_agent = "None"
    /\ la_steps = <<>>
    /\ la_return = "idle"

OrchInit ==
    /\ orch \in Orchestrators
    /\ node = "supervisor"
    /\ metadata_results = NoneVal
    /\ entitlement_results = NoneVal
    /\ data_results = NoneVal
    /\ aggregation_results = NoneVal
    /\ current_agent = "None"
    /\ workflow_status = "started"
    /\ error_count = 0
    /\ total_agents_executed = 0
    /\ completed_at = "None"
    /\ llm_response = NoCall
    /\ next_agent = "None"
    /\ agent_run = [agent |-> "None", logic |-> "not_run", raised |-> FALSE]
    /\ sequential = TRUE
    /\ order = <<>>

\* no DataAgent object yet
DataInit ==
    /\ mcp_servers = <<>>
    /\ available_tools = <<>>
    /\ da_pc = "new"
    /\ da_responses = <<>>
    /\ da_context = NoContext
    /\ da_selection = NoSelection
    /\ da_sent = <<>>
    /\ da_results = <<>>
    /\ da_return = "none"

PairInit ==
    /\ pair_o = InitialState
    /\ pair_l = InitialState
    /\ pair_denied = FALSE

\* module level of app.py: session_queues = {}
ChatInit ==
    /\ session_queues = [x \in {} |-> <<>>]
    /\ chat_session = "none"
    /\ chat_requests = 0
    /\ chat_handler = "idle"
    /\ chat_response = "none"
    /\ chat_produced = <<>>
    /\ chat_emitted = <<>>

\* no request handled yet
McpInit ==
    /\ mcp_server = "none"
    /\ mcp_request = NoRequest
    /\ mcp_reply = NoReply
    /\ mcp_executed = "none"

\* the tool has not been called yet
ResearchInit ==
    /\ research_call = [query |-> <<>>, session_id |-> "None", research_mode |-> "full",
                        server |-> "up", workflow |-> "completed"]
    /\ research_http = NoExchange
    /\ research_return = [status |-> "none", error |-> "none", agent_results |-> "none"]

\* module level of azure_openai_client.py: _global_client = None
ClientInit ==
    /\ global_client = NoClient
    /\ client_call = [op |-> "none", raised |-> "none", client |-> NoClient]

Init ==
    /\ OrchInit /\ ExecInit /\ LogicInit /\ DataInit /\ PairInit /\ ChatInit /\ McpInit
    /\ ResearchInit /\ ClientInit

Next ==
    \/ supervisor_agent
    \/ metadata_agent_node
    \/ entitlement_agent_node
    \/ data_agent_node
    \/ aggregation_agent_node
    \/ error_handler_node

Spec == Init /\ [][Next]_vars

\* the graph runner (graph.ainvoke) runs the next node as long as there is one
SpecFair == Spec /\ WF_vars(Next)

(***************************************************************************)
(* SpecExec: calls of BaseAgent.execute against the execution records      *)
(***************************************************************************)
ExecuteCall ==
    /\ Len(executions) < MaxExecutions
    /\ \E agent \in AgentNames, create \in DbOutcomes, upd_completed \in DbOutcomes,
          upd_failed \in DbOutcomes :
         \E logic \in LogicOutcomes(agent) :
           LET r == execute(create, logic, upd_completed, upd_failed) IN
             /\ exec_call' = [agent |-> agent, create |-> create,
                              logic |-> logic.outcome,
                              upd_completed |-> upd_completed,
                              upd_failed |-> upd_failed]
             /\ exec_return' = [kind |-> IF r.raised THEN "raise" ELSE "dict",
                                status |-> r.dict.status,
                                payload |-> r.payload]
             /\ executions' = IF r.record = "none" THEN executions
                              ELSE Append(executions,
                                          [agent_type |-> agent, status |-> r.record])
    /\ UNCHANGED <<orch_vars, logic_vars, more_vars>>

SpecExec == Init /\ [][ExecuteCall]_vars

(***************************************************************************)
(* SpecLogic: the LLM steps of one _execute_logic run                      *)
(***************************************************************************)
LlmAgents == {"metadata_agent", "entitlement_agent", "aggregation_agent"}

\* the LLM steps in the order _execute_logic reaches them (MetadataAgent: the
\* sequential strategy over denodo_schema_discovery and a second method)
LogicSteps(agent) ==
    CASE agent = "metadata_agent" ->
           <<"create_discovery_strategy", "select_discovery_methods",
             "create_denodo_queries", "should_continue_discovery",
             "synthesize_metadata", "generate_recommendations">>
      [] agent = "entitlement_agent" ->
           <<"analyze_security_implications", "analyze_compliance_requirements",
             "select_security_frameworks", "perform_risk_assessment",
             "make_access_decision", "generate_security_recommendations">>
      [] agent = "aggregation_agent" ->
           <<"create_aggregation_strategy", "select_analysis_frameworks",
             "determine_synthesis_approach", "analyze_patterns",
             "generate_insights", "create_final_synthesis">>

\* how a step treats the parsed reply inside its try block:
\*   dict_checked    calls .get on it (in the log line) before returning it
\*   dict_unchecked  returns it as parsed
\*   list            returns it if it is a list, else a default query list
\*   bool            no JSON: "true" in llm_response.lower()
StepKind(step) ==
    CASE step \in {"synthesize_metadata", "generate_recommendations"} -> "dict_unchecked"
      [] step = "create_denodo_queries" -> "list"
      [] step = "should_continue_discovery" -> "bool"
      [] OTHER -> "dict_checked"

\* what call_llm does and what json.loads makes of the reply
StepReplies == {"raise", "not_json", "json_dict", "json_list", "json_scalar"}
LlmFailures == {"raise", "not_json"}

\* a plausible slip: only json.JSONDecodeError is caught
llm_step_decode_only(kind, reply) ==
    IF reply = "raise" THEN "raised"
    ELSE IF kind = "bool" THEN (IF reply = "json_scalar" THEN "true" ELSE "false")
    ELSE IF reply = "not_json" THEN "fallback"
    ELSE IF kind = "dict_checked"
    THEN (IF reply = "json_dict" THEN "dict" ELSE "raised")
    ELSE IF kind = "dict_unchecked"
    THEN (CASE reply = "json_dict" -> "dict" [] reply = "json_list" -> "list"
            [] OTHER -> "scalar")
    ELSE (IF reply = "json_list" THEN "list" ELSE "default_queries")

\* the value an LLM step returns: "fallback" is the step's hardcoded fallback
\* (a dict; three queries for the list step; True for the bool step)
llm_step(kind, reply) ==
    IF kind = "bool"
    THEN (CASE reply = "raise" -> "fallback"
            [] reply = "json_scalar" -> "true"
            [] OTHER -> "false")
    ELSE IF reply \in LlmFailures THEN "fallback"
    ELSE IF kind = "dict_checked"
    THEN (IF reply = "json_dict" THEN "dict" ELSE "fallback")
    ELSE IF kind = "dict_unchecked"
    THEN (CASE reply = "json_dict" -> "dict" [] reply = "json_list" -> "list"
            [] OTHER -> "scalar")
    ELSE (IF reply = "json_list" THEN "list" ELSE "default_queries")

\* access_decision.get("decision") after step 5 of EntitlementAgent:
\* _fallback_access_decision's dict has "approve_with_conditions"
access_decision(step, result, llm_decision) ==
    IF step # "make_access_decision" THEN "None"
    ELSE IF result = "fallback" THEN "approve_with_conditions"
    ELSE llm_decision

\* entitlement_summary.access_granted of the dict EntitlementAgent's
\* _execute_logic returns after these steps
access_granted(steps) ==
    \E i \in 1..Len(steps) :
       steps[i].step = "make_access_decision" /\ steps[i].decision = "approve"

\* _execute_logic starts
LogicStart ==
    /\ la_agent = "None"
    /\ \E agent \in LlmAgents : la_agent' = agent
    /\ la_return' = "running"
    /\ UNCHANGED <<la_steps, orch_vars, exec_vars, more_vars>>

\* the next _llm_* step runs
LlmStep ==
    /\ la_return = "running"
    /\ Len(la_steps) < Len(LogicSteps(la_agent))
    /\ \A i \in 1..Len(la_steps) : la_steps[i].result # "raised"
    /\ LET step == LogicSteps(la_agent)[Len(la_steps) + 1] IN
         \E reply \in StepReplies :
           \* the "decision" member of a dict the LLM returned ("None": absent)
           \E llm_decision \in
                 IF step = "make_access_decision" /\ reply = "json_dict"
                 THEN {"approve", "approve_with_conditions", "partial_approve",
                       "deny", "escalate", "None"}
                 ELSE {"None"} :
             LET result == llm_step(StepKind(step), reply) IN
               la_steps' = Append(la_steps,
                                  [step |-> step, reply |-> reply, result |-> result,
                                   decision |-> access_decision(step, result, llm_decision)])
    /\ UNCHANGED <<la_agent, la_return, orch_vars, exec_vars, more_vars>>

\* the summary dict is built (.get on step results) and returned, or an
\* exception leaves _execute_logic
LogicReturn ==
    /\ la_return = "running"
    /\ \/ Len(la_steps) = Len(LogicSteps(la_agent))
       \/ \E i \in 1..Len(la_steps) : la_steps[i].result = "raised"
    /\ la_return' =
         IF \E i \in 1..Len(la_steps) :
               \/ la_steps[i].result = "raised"
               \/ /\ la_steps[i].step = "synthesize_metadata"
                  /\ la_steps[i].result \in {"list", "scalar"}
         THEN "raise"
         ELSE "dict"
    /\ UNCHANGED <<la_agent, la_steps, orch_vars, exec_vars, more_vars>>

SpecLogic ==
    Init /\ [][ LogicStart \/ LlmStep \/ LogicReturn ]_vars

(***************************************************************************)
(* SpecData: runs of DataAgent._execute_logic on one DataAgent object      *)
(***************************************************************************)
\* DataAgent.__init__: the config file is read once, available_tools = {}
DataAgentInit ==
    /\ da_pc = "new"
    /\ mcp_servers' \in McpConfigs
    /\ available_tools' = <<>>
    /\ da_pc' = "idle"
    /\ UNCHANGED <<da_responses, da_context, da_selection, da_sent, da_results,
                   da_return,
                   base_vars, pair_vars, chat_vars, mcp_vars, research_vars, client_vars>>

\* Step 1: _discover_tools_from_mcp_servers
DiscoverTools ==
    /\ da_pc = "idle"
    /\ \E responses \in ResponsesFor(mcp_servers) :
         LET d == discover_tools_from_mcp_servers(mcp_servers, responses, 1, <<>>) IN
           /\ da_responses' = responses
           /\ available_tools' = IF d.raised THEN available_tools
                                 ELSE store_discovered(available_tools, d.tools)
           /\ da_pc' = IF d.raised THEN "idle" ELSE "discovered"
           /\ da_return' = IF d.raised THEN "raise" ELSE "none"
    /\ da_context' = NoContext
    /\ da_selection' = NoSelection
    /\ da_sent' = <<>>
    /\ da_results' = <<>>
    /\ UNCHANGED <<mcp_servers,
                   base_vars, pair_vars, chat_vars, mcp_vars, research_vars, client_vars>>

\* Step 2: _llm_select_tools
SelectTools ==
    /\ da_pc = "discovered"
    /\ \E reply \in SelectReplies, context \in Contexts :
         LET s == llm_select_tools(available_tools, reply, context) IN
           /\ da_context' = IF available_tools = <<>> \/ reply.kind = "json_dict"
                            THEN NoContext ELSE context
           /\ da_selection' = s.selection
           /\ da_pc' = IF s.raised THEN "idle" ELSE "selected"
           /\ da_return' = IF s.raised THEN "raise" ELSE "none"
    /\ UNCHANGED <<mcp_servers, available_tools, da_responses, da_sent, da_results,
                   <<base_vars, pair_vars, chat_vars, mcp_vars, research_vars, client_vars>>>>

\* Step 3: _execute_selected_tools
ExecuteSelectedTools ==
    /\ da_pc = "selected"
    /\ LET tasks == Tasks(available_tools, da_selection.selected_tools) IN
         \* what the server does with each tools/call POST
         \E outcomes \in [1..Len(tasks) ->
                            {"result", "error", "other", "http_error", "exception"}] :
           LET x == execute_selected_tools(available_tools, da_selection, outcomes) IN
             /\ da_sent' = x.sent
             /\ da_results' = x.results
    /\ da_pc' = "executed"
    /\ UNCHANGED <<mcp_servers, available_tools, da_responses, da_context,
                   da_selection, da_return,
                   base_vars, pair_vars, chat_vars, mcp_vars, research_vars, client_vars>>

\* Step 4: _llm_analyze_results and the returned dict; the locals of the run
\* are gone, the object keeps mcp_servers and available_tools
AnalyzeAndReturn ==
    /\ da_pc = "executed"
    /\ da_pc' = "idle"
    /\ da_return' = "dict"
    /\ da_responses' = <<>>
    /\ da_context' = NoContext
    /\ da_selection' = NoSelection
    /\ da_sent' = <<>>
    /\ da_results' = <<>>
    /\ UNCHANGED <<mcp_servers, available_tools,
                   base_vars, pair_vars, chat_vars, mcp_vars, research_vars, client_vars>>

SpecData ==
    Init /\ [][ DataAgentInit \/ DiscoverTools \/ SelectTools \/ ExecuteSelectedTools \/ AnalyzeAndReturn ]_vars

(***************************************************************************)
(* SpecPair: both orchestrators on the same request; as long as they are   *)
(* at the same node, the node runs in both on the same input               *)
(***************************************************************************)
PairStep ==
    /\ pair_o.node = pair_l.node
    /\ pair_o.node # "END"
    /\ pair_o.total_agents_executed < MaxExecuted
    /\ \E in \in NodeInputs(pair_o.node) :
         /\ pair_o' = NodeStep("Orchestrator", pair_o, in)
         /\ pair_l' = NodeStep("LangGraphOrchestrator", pair_l, in)
    /\ pair_denied' = (pair_denied \/ DeniedOf("LangGraphOrchestrator", pair_l))
    /\ UNCHANGED <<base_vars, data_vars, chat_vars, mcp_vars, research_vars, client_vars>>

SpecPair == Init /\ [][PairStep]_vars

(***************************************************************************)
(* SpecChat: /api/chat requests, one after the other; the handler and the  *)
(* response stream of a request run interleaved                            *)
(***************************************************************************)
\* chat_completions: the agent of the session is registered (its queue is the
\* session's), response_stream gets the queue and publishes the message
chat_completions ==
    /\ chat_response \in {"none", "closed"}
    /\ chat_handler \in {"idle", "finished"}
    /\ chat_requests < MaxRequests
    /\ \E session_id \in {"s1", "s2"} :
         /\ chat_session' = session_id
         /\ session_queues' = get_or_create_queue(session_queues, session_id)
    /\ chat_requests' = chat_requests + 1
    /\ chat_handler' = "running"
    /\ chat_response' = "open"
    /\ chat_produced' = <<>>
    /\ chat_emitted' = <<>>
    /\ UNCHANGED <<base_vars, data_vars, pair_vars, mcp_vars, research_vars, client_vars>>

\* handle_message: the model stream yields a string chunk
HandlerChunk ==
    /\ chat_handler = "running"
    /\ Len(chat_produced) < MaxChunks
    /\ \E content \in {"a", "b"} :
         LET item == TextItem(chat_requests, content) IN
           /\ session_queues' = Put(session_queues, chat_session, <<item>>)
           /\ chat_produced' = Append(chat_produced, item)
    /\ UNCHANGED <<chat_session, chat_requests, chat_handler, chat_response,
                   chat_emitted,
                   base_vars, data_vars, pair_vars, mcp_vars, research_vars, client_vars>>

\* handle_message: the model stream ends
HandlerDone ==
    /\ chat_handler = "running"
    /\ session_queues' = Put(session_queues, chat_session, <<STREAM_DONE>>)
    /\ chat_handler' = "finished"
    /\ UNCHANGED <<chat_session, chat_requests, chat_response, chat_produced,
                   chat_emitted,
                   base_vars, data_vars, pair_vars, mcp_vars, research_vars, client_vars>>

\* handle_message: the model stream raises; the except branch puts the
\* error item and then STREAM_DONE
HandlerError ==
    /\ chat_handler = "running"
    /\ session_queues' = Put(session_queues, chat_session, <<ErrorItem, STREAM_DONE>>)
    /\ chat_handler' = "finished"
    /\ UNCHANGED <<chat_session, chat_requests, chat_response, chat_produced,
                   chat_emitted,
                   base_vars, data_vars, pair_vars, mcp_vars, research_vars, client_vars>>

\* response_stream: one turn of the while loop
StreamGet ==
    /\ chat_response = "open"
    /\ session_queues[chat_session] # <<>>
    /\ LET item == Head(session_queues[chat_session]) IN
         /\ session_queues' = [session_queues EXCEPT ![chat_session] = Tail(@)]
         /\ chat_emitted' =
              CASE item.type = "done" -> Append(chat_emitted, DoneEvent)
                [] item.type = "text" -> Append(chat_emitted, item)
                [] item.type = "error" -> chat_emitted \o <<ErrorEvent, DoneEvent>>
         /\ chat_response' = IF item.type \in {"done", "error"} THEN "closed" ELSE "open"
    /\ UNCHANGED <<chat_session, chat_requests, chat_handler, chat_produced,
                   base_vars, data_vars, pair_vars, mcp_vars, research_vars, client_vars>>

SpecChat ==
    Init /\ [][ chat_completions \/ HandlerChunk \/ HandlerDone \/ HandlerError \/ StreamGet ]_vars

(***************************************************************************)
(* SpecMcp: HTTP requests to the demo and the denodo MCP server            *)
(***************************************************************************)
HandleMcpRequest ==
    \* the called tool function returns a short or a long text, or raises
    /\ \E server \in {"demo", "denodo"}, req \in McpRequests,
          outcome \in {"small", "large", "raises"} :
         LET h == handle_mcp_request(server, req, outcome) IN
           /\ mcp_server' = server
           /\ mcp_request' = req
           /\ mcp_reply' = h.reply
           /\ mcp_executed' = h.executed
    /\ UNCHANGED <<base_vars, data_vars, pair_vars, chat_vars, research_vars, client_vars>>

SpecMcp == Init /\ [][HandleMcpRequest]_vars

(***************************************************************************)
(* SpecResearch: calls of the multi_agent_research tool                    *)
(***************************************************************************)
CallMultiAgentResearch ==
    \* the tool's arguments (queries as token sequences: query.strip() decides),
    \* the agent server as the tool finds it, and how the workflow would end
    /\ \E query \in { <<>>, <<" ">>, <<"sales">>, <<" ", "sales", "\n">> },
          session_id \in {"None", "s1"},
          research_mode \in {"metadata", "data", "analysis", "full"},
          server \in {"up", "timeout", "connect_error"},
          workflow \in {"completed", "failed", "raises"} :
         LET r == multi_agent_research(query, session_id, research_mode, server, workflow) IN
           /\ research_call' = [query |-> query, session_id |-> session_id,
                                research_mode |-> research_mode, server |-> server,
                                workflow |-> workflow]
           /\ research_http' = r.http
           /\ research_return' = r.return
    /\ UNCHANGED <<base_vars, data_vars, pair_vars, chat_vars, mcp_vars, client_vars>>

SpecResearch == Init /\ [][CallMultiAgentResearch]_vars

(***************************************************************************)
(* SpecClient: calls of get_azure_openai_client, and clients made and      *)
(* initialized directly                                                    *)
(***************************************************************************)
GetAzureOpenAIClient ==
    /\ \E env \in Environments, sdk \in SdkOutcomes :
         LET r == get_azure_openai_client(global_client, env, sdk) IN
           /\ global_client' = r.global
           /\ client_call' = [op |-> "get_azure_openai_client", raised |-> r.raised,
                              client |-> r.returned]
    /\ UNCHANGED <<base_vars, data_vars, pair_vars, chat_vars, mcp_vars, research_vars>>

\* AzureOpenAIClient(config) followed by initialize(), config given or loaded
NewClientInitialize ==
    /\ \E config \in ExplicitConfigs \cup {NoConfig}, env \in Environments,
          sdk \in SdkOutcomes :
         LET n == new_client(config, env)
             i == initialize(n.client, sdk)
         IN client_call' =
              IF n.raised # "none"
              THEN [op |-> "new", raised |-> n.raised, client |-> NoClient]
              ELSE [op |-> "initialize", raised |-> i.raised, client |-> i.client]
    /\ UNCHANGED <<global_client,
                   base_vars, data_vars, pair_vars, chat_vars, mcp_vars, research_vars>>

SpecClient ==
    Init /\ [][ GetAzureOpenAIClient \/ NewClientInitialize ]_vars

(***************************************************************************)
(* Claims                                                                  *)
(***************************************************************************)
AllResultsSet ==
    /\ metadata_results # NoneVal
    /\ entitlement_results # NoneVal
    /\ data_results # NoneVal
    /\ aggregation_results # NoneVal

ResultOf(agent) ==
    CASE agent = "metadata_agent" -> metadata_results
      [] agent = "entitlement_agent" -> entitlement_results
      [] agent = "data_agent" -> data_results
      [] agent = "aggregation_agent" -> aggregation_results

\* C1: in both orchestrators, a supervisor run in a state with
\* error_count >= max_errors routes to END with workflow_status "failed" and
\* completed_at set, asks the LLM nothing and dispatches no agent (counters,
\* current_agent and result fields stay as they are).
C1_CircuitBreaker ==
    [][(node = "supervisor" /\ error_count >= max_errors) =>
          /\ node' = "END"
          /\ workflow_status' = "failed"
          /\ completed_at' = "set"
          /\ ~llm_response'.called
          /\ next_agent' = "None"
          /\ UNCHANGED <<current_agent, error_count, total_agents_executed,
                         metadata_results, entitlement_results, data_results,
                         aggregation_results>>]_vars

C1_Witness ==
    /\ node = "END"
    /\ error_count >= max_errors
    /\ workflow_status = "failed"
    /\ completed_at = "set"
    /\ ~llm_response.called

\* the normalized form of each modelled reply, written out by hand:
\* "invalid" when trimming and lower-casing does not give one of the options
C2_Normalized(text) ==
    CASE text = <<"metadata_agent">> -> "metadata_agent"
      [] text = <<"entitlement_agent">> -> "entitlement_agent"
      [] text = <<"data_agent">> -> "data_agent"
      [] text = <<"aggregation_agent">> -> "aggregation_agent"
      [] text = <<"complete">> -> "complete"
      [] text = <<"error">> -> "error"
      [] text = <<" ", "Data_Agent", "\n">> -> "data_agent"
      [] text = <<"COMPLETE">> -> "complete"
      [] text = <<"error", "\n">> -> "error"
      [] OTHER -> "invalid"

\* C2: after a supervisor run that asked the LLM, the decision is the trimmed,
\* lower-cased reply exactly when that is one of the six options; for every
\* other reply and when the call raised it is the sequential fallback's
\* decision; and the supervisor routed to the node the decision names: one of
\* the four agents, the error handler, or END.
C2_Decision ==
    llm_response.called =>
        LET valid == ~llm_response.raised /\ C2_Normalized(llm_response.text) # "invalid" IN
          /\ valid => next_agent = C2_Normalized(llm_response.text)
          /\ ~valid => next_agent = fallback_decision_logic
          /\ node = (CASE next_agent = "complete" -> "END"
                       [] next_agent = "error" -> "error_handler"
                       [] OTHER -> next_agent)
          /\ node \in AgentNames \cup {"error_handler", "END"}

\* a reply that needs both strip() and lower() was taken as the decision
C2_Witness ==
    /\ llm_response.called
    /\ llm_response.text = <<" ", "Data_Agent", "\n">>
    /\ next_agent = "data_agent"
    /\ node = "data_agent"

\* C3: every workflow run terminates: whatever the LLM replies and the agents
\* do, the state machine reaches END.
C3_Terminates == <>(node = "END")

\* C4: in Orchestrator, when every supervisor decision came from the fallback
\* and every agent execution returned, a finished run has dispatched
\* metadata, entitlement, data, aggregation, once each and in this order, and
\* ends "completed" with total_agents_executed = 4 and error_count = 0.
C4_SequentialRun ==
    (orch = "Orchestrator" /\ node = "END" /\ sequential) =>
        /\ order = <<"metadata_agent", "entitlement_agent", "data_agent",
                     "aggregation_agent">>
        /\ workflow_status = "completed"
        /\ total_agents_executed = 4
        /\ error_count = 0

C4_Witness ==
    /\ orch = "Orchestrator"
    /\ node = "END"
    /\ sequential
    /\ Len(order) = 4
    /\ llm_response.called
    /\ llm_response.raised

\* C5: 0 <= error_count <= max_errors in every reachable state, and no step
\* (supervisor, agent node, error handler) lowers error_count.
C5_ErrorCount ==
    /\ [](error_count \in 0..max_errors)
    /\ [][error_count' >= error_count]_vars

\* the error handler has run after an error was counted, and the limit is reached
C5_Witness ==
    /\ error_count = max_errors
    /\ workflow_status = "recovering"
    /\ node = "supervisor"

\* C6: an agent run whose _execute_logic raised increases error_count by
\* exactly one and leaves the agent's result field as it was.
C6_LogicFailureCounts ==
    [][(node \in AgentNames /\ agent_run'.logic = "raised") =>
          /\ error_count' = error_count + 1
          /\ ResultOf(node)' = ResultOf(node)]_vars

\* C7: the data agent node never runs while entitlement_results is unset.
C7_EntitlementBeforeData ==
    node = "data_agent" => entitlement_results # NoneVal

\* C8: a run that ended with workflow_status "completed" has all four result
\* fields set.
C8_CompletedMeansAllDone ==
    (node = "END" /\ workflow_status = "completed") => AllResultsSet

\* steps that parse the reply as JSON
C9_JsonStep(step) == StepKind(step) # "bool"

C10_AsStated ==
    (exec_call.agent # "None" /\ exec_call.create = "ok") =>
        /\ exec_return.kind = "dict"
        /\ exec_call.logic = "returns" =>
              (exec_return.status = "completed" /\ exec_return.payload = "results")
        /\ exec_call.logic = "raises" =>
              (exec_return.status = "failed" /\ exec_return.payload = "logic_error")

\* C10, amended: the exception of _execute_logic never leaves execute (what
\* leaves is only a failure of the execution-record calls); execute returns
\* the "completed" dict with the results when the logic returned and the
\* COMPLETED update succeeded, and the "failed" dict with the error text when
\* the logic raised, or the COMPLETED update raised, and the FAILED update
\* succeeded.
C10_ExecuteReturns ==
    exec_call.agent # "None" =>
        /\ exec_return.kind = "raise" =>
              /\ exec_return.payload = "db_error"
              /\ \/ exec_call.create = "raise"
                 \/ exec_call.upd_failed = "raise"
        /\ (exec_call.create = "ok" /\ exec_call.logic = "returns"
              /\ exec_call.upd_completed = "ok") =>
              /\ exec_return.kind = "dict"
              /\ exec_return.status = "completed"
              /\ exec_return.payload = "results"
        /\ (exec_call.create = "ok" /\ exec_call.logic = "raises"
              /\ exec_call.upd_failed = "ok") =>
              /\ exec_return.kind = "dict"
              /\ exec_return.status = "failed"
              /\ exec_return.payload = "logic_error"
        /\ (exec_call.create = "ok" /\ exec_call.logic = "returns"
              /\ exec_call.upd_completed = "raise" /\ exec_call.upd_failed = "ok") =>
              /\ exec_return.kind = "dict"
              /\ exec_return.status = "failed"
              /\ exec_return.payload = "db_error"

\* the logic raised and execute returned the "failed" dict
C10_Witness ==
    /\ exec_call.agent # "None"
    /\ exec_call.logic = "raises"
    /\ exec_return.kind = "dict"
    /\ exec_return.status = "failed"
    /\ exec_return.payload = "logic_error"

\* entries of a tool list that are tool objects with a name
NamedEntries(tools) == { tools[i] : i \in 1..Len(tools) } \ {NoName, Junk}

\* an answer whose tool list holds tool objects only
WellFormedAnswer(response) ==
    /\ response.kind = "tools"
    /\ \A i \in 1..Len(response.tools) : response.tools[i] # Junk

\* _discover_tools_from_mcp_servers raised in the last run
DiscoveryRaised ==
    /\ da_pc = "idle"
    /\ da_return = "raise"
    /\ da_context = NoContext

\* the named tools of every http server with a url that answered with a
\* well-formed tool list
ExpectedTools ==
    UNION { { ToolId(mcp_servers[i].name, t) : t \in NamedEntries(da_responses[i].tools) } :
              i \in { k \in 1..Len(mcp_servers) :
                        /\ IsHttpWithUrl(mcp_servers[k])
                        /\ WellFormedAnswer(da_responses[k]) } }

\* C11: discovery never raises, and after it available_tools holds, keyed
\* (server, tool), exactly the tools reported by the http servers with a url
\* that answered as expected; a server that fails or answers unexpectedly
\* contributes no tool and does not keep the other servers' tools out
C11_Discovery ==
    /\ ~DiscoveryRaised
    /\ da_pc = "discovered" => Keys(available_tools) = ExpectedTools

\* the tools some server reported in this run
ReportedTools ==
    UNION { { ToolId(mcp_servers[i].name, t) : t \in NamedEntries(da_responses[i].tools) } :
              i \in 1..Len(da_responses) }

\* C12: every tools/call request of a run, in the parallel and in the
\* sequential branch, names a tool that this run's discovery registered
C12_OnlyDiscoveredCalled ==
    \A i \in 1..Len(da_sent) :
        /\ da_sent[i] \in Keys(available_tools)
        /\ da_sent[i] \in ReportedTools
        /\ da_sent[i] \in Keys(da_selection.selected_tools)

\* C12 witness: a sequential run posted a request and skipped a selected id
\* that discovery had not registered
C12_Witness ==
    /\ da_pc = "executed"
    /\ da_selection.execution_strategy = "sequential"
    /\ da_sent # <<>>
    /\ \E k \in Keys(da_selection.selected_tools) : k \notin Keys(available_tools)

\* the two runs are at the same node with the same counters
PairAgrees ==
    /\ pair_o.node = pair_l.node
    /\ pair_o.error_count = pair_l.error_count
    /\ pair_o.total_agents_executed = pair_l.total_agents_executed
    /\ pair_o.node = "END" => pair_o.workflow_status = pair_l.workflow_status

\* C13 as the specification states it: on the same LLM replies and agent
\* outcomes the two orchestrators visit the same nodes and finish with the
\* same workflow_status, error_count and total_agents_executed
C13_AsStated ==
    /\ pair_o.node = pair_l.node
    /\ pair_o.node = "END" =>
         /\ pair_o.workflow_status = pair_l.workflow_status
         /\ pair_o.error_count = pair_l.error_count
         /\ pair_o.total_agents_executed = pair_l.total_agents_executed

\* C13: the two orchestrators visit the same nodes and agree on error_count,
\* total_agents_executed and the final workflow_status as long as the
\* LangGraph data node has not taken its access-denied branch
C13_EquivalentUntilDenied == ~pair_denied => PairAgrees

\* C13 witness: both runs finished, the error handler ran on the way (only
\* the LangGraph one went through "recovering") and no access was denied
C13_Witness ==
    /\ ~pair_denied
    /\ pair_o.node = "END"
    /\ pair_l.node = "END"
    /\ pair_o.total_agents_executed > 0
    /\ pair_o.error_count > 0

\* the text events of a stream
TextEvents(events) == SelectSeq(events, LAMBDA e : e.type = "text")

\* C14: a closed /api/chat response stream has emitted the text chunks the
\* agent produced for its request, in order, and ends with its only [DONE]
\* event, whether the model stream succeeded or failed
C14_StreamComplete ==
    (chat_response = "closed" /\ chat_handler = "finished") =>
        /\ TextEvents(chat_emitted) = chat_produced
        /\ chat_emitted[Len(chat_emitted)] = DoneEvent
        /\ Cardinality({ i \in 1..Len(chat_emitted) : chat_emitted[i] = DoneEvent }) = 1

\* a JSON-RPC request without an id
IsNotification(req) ==
    /\ req.http = "POST"
    /\ req.body = "object"
    /\ req.id = "missing"

\* C15: a JSON-RPC request without an id is answered with 204 and no
\* JSON-RPC result or error, whatever its method
C15_NotificationsUnanswered ==
    IsNotification(mcp_request) =>
        /\ mcp_reply.status = 204
        /\ mcp_reply.body = "none"

\* a tools/call request that names a tool
IsToolsCall(req) ==
    /\ req.http = "POST"
    /\ req.body = "object"
    /\ req.method = "tools/call"
    /\ req.params \in {"dict", "missing"}
    /\ req.name # "unhashable"

\* C16: the names tools/list advertises are the names tools/call accepts: a
\* listed tool is never answered with -32601, and a tools/call for an unlisted
\* name is answered with error -32601 and runs no tool
C16_ListedIffCallable ==
    /\ (mcp_request.method = "tools/list" /\ mcp_reply.kind = "result") =>
           mcp_reply.tools = AVAILABLE_TOOLS(mcp_server)
    /\ IsToolsCall(mcp_request) =>
           IF mcp_request.name \in ListedTools(mcp_server)
           THEN mcp_reply.code # -32601
           ELSE /\ mcp_reply.kind = "error"
                /\ mcp_reply.code = -32601
                /\ mcp_executed = "none"

\* C16 witness: the denodo server refused the demo server's tool, and ran none
C16_Witness ==
    /\ mcp_server = "denodo"
    /\ IsToolsCall(mcp_request)
    /\ mcp_request.name = "ask_ai"
    /\ mcp_reply.code = -32601
    /\ mcp_executed = "none"

\* C17: when the agent server is up and the workflow completes, the
\* multi_agent_research tool reaches the research endpoint and returns status
\* "completed" with the workflow results
C17_ResearchReachesEndpoint ==
    ( /\ research_http.path # "none"
      /\ research_call.server = "up"
      /\ research_call.workflow = "completed" ) =>
        /\ <<"POST", research_http.path>> \in AgentRoutes
        /\ research_return.status = "completed"
        /\ research_return.agent_results = "results"

\* C18: a client that get_azure_openai_client returns is ready, also in a
\* call that follows a call whose initialization failed
C18_ReturnedClientReady ==
    (client_call.op = "get_azure_openai_client" /\ client_call.raised = "none") =>
        is_ready(client_call.client)

\* C19: a configuration loaded from the environment selects API-key
\* authentication exactly when an API key is configured and Azure AD
\* otherwise; an initialized client has exactly the one authentication its
\* configuration selects; and initialize fails with LLMValidationError in
\* API-key mode without a key
C19_OneAuthMode ==
    LET c == client_call.client IN
      /\ (c.kind = "client" /\ c.config.kind = "loaded") =>
             (c.config.use_azure_ad <=> ~Truthy(c.config.api_key))
      /\ (c.kind = "client" /\ is_ready(c)) =>
             /\ c.auth = (IF c.config.use_azure_ad THEN "azure_ad" ELSE "api_key")
             /\ c.credential <=> (c.auth = "azure_ad")
             /\ c.auth = "api_key" => Truthy(c.config.api_key)
      /\ ( /\ client_call.op = "initialize"
           /\ ~c.config.use_azure_ad
           /\ ~Truthy(c.config.api_key) ) =>
             /\ client_call.raised = "LLMValidationError"
             /\ ~is_ready(c)

\* C19 witness: initialize failed in API-key mode for lack of a key
C19_Witness ==
    /\ client_call.op = "initialize"
    /\ client_call.client.kind = "client"
    /\ ~client_call.client.config.use_azure_ad
    /\ ~Truthy(client_call.client.config.api_key)
    /\ client_call.raised = "LLMValidationError"

\* C20: in LangGraphOrchestrator, a step of the data agent node from a state
\* whose entitlement results are set and do not grant access does not invoke
\* the data agent: data_results becomes the access-denied error, the next
\* node is the supervisor, and error_count and total_agents_executed keep
\* their values
C20_DeniedSkipsDataAgent ==
    [][ ( /\ orch = "LangGraphOrchestrator"
          /\ node = "data_agent"
          /\ entitlement_results # NoneVal
          /\ ~TopLevelAccessGranted(entitlement_results) )
        => ( /\ agent_run' = [agent |-> "data_agent", logic |-> "not_run", raised |-> FALSE]
             /\ data_results' = DeniedVal
             /\ node' = "supervisor"
             /\ error_count' = error_count
             /\ total_agents_executed' = total_agents_executed ) ]_vars

\* C20 witness: the data agent node has just taken its denied branch after an
\* entitlement run that had completed
C20_Witness ==
    /\ orch = "LangGraphOrchestrator"
    /\ node = "supervisor"
    /\ agent_run = [agent |-> "data_agent", logic |-> "not_run", raised |-> FALSE]
    /\ entitlement_results.kind = "execute"
    /\ data_results = DeniedVal

\* C21: in LangGraphOrchestrator, a step of the data agent node from a state
\* whose entitlement result reports access as granted invokes the data agent,
\* and the dict the agent returns becomes data_results
C21_ApprovedDataRuns ==
    [][ ( /\ orch = "LangGraphOrchestrator"
          /\ node = "data_agent"
          /\ entitlement_results.kind = "execute"
          /\ entitlement_results.granted )
        => ( /\ agent_run' # [agent |-> "data_agent", logic |-> "not_run", raised |-> FALSE]
             /\ ~agent_run'.raised => data_results'.kind = "execute" ) ]_vars

\* C22: a /api/chat response stream emits only text chunks produced for its
\* own request, and once the stream is closed and the handler has finished
\* the queue of the session is empty, so nothing is left for another request
\* of the same session
C22_QueueIsolated ==
    /\ \A i \in 1..Len(chat_emitted) :
         chat_emitted[i].type = "text" => chat_emitted[i].req = chat_requests
    /\ (chat_response = "closed" /\ chat_handler = "finished") =>
         session_queues[chat_session] = <<>>

\* C23: in LangGraphOrchestrator only a step of the supervisor reaches END,
\* every step of an agent node or of the error handler leads to the
\* supervisor, and at END the workflow_status is "completed" or "failed" and
\* the success flag of the returned dict is true exactly when it is "completed"
C23_SupervisorEnds ==
    [][ orch = "LangGraphOrchestrator" =>
          /\ (node # "END" /\ node' = "END") => node = "supervisor"
          /\ node \in AgentNames \cup {"error_handler"} => node' = "supervisor"
          /\ node' = "END" =>
               /\ workflow_status' \in {"completed", "failed"}
               /\ process_request(workflow_status').workflow_status = workflow_status'
               /\ process_request(workflow_status').success
                    <=> (workflow_status' = "completed") ]_vars

\* C23 witness: a run of LangGraphOrchestrator in which no agent returned,
\* ended by the circuit breaker and reported as not successful
C23_Witness ==
    /\ orch = "LangGraphOrchestrator"
    /\ node = "END"
    /\ workflow_status = "failed"
    /\ ~process_request(workflow_status).success
    /\ total_agents_executed = 0

\* C24: with tools available, the tool selection step of the data agent does
\* not raise, and when the LLM call failed or its reply was not a JSON object
\* the selection is the one of the heuristic fallback, whatever the context
C24_SelectionNeverRaises ==
    [][ (da_pc = "discovered" /\ available_tools # <<>>) =>
          /\ da_return' # "raise"
          /\ da_context' # NoContext => da_selection'.method = "fallback" ]_vars

\* C25: when the access-decision step of the entitlement agent failed (the
\* LLM call raised or the reply was not valid JSON), the step returns the
\* fallback decision, an approval with conditions, and the entitlement_summary
\* of the returned dict has access_granted true
C25_FallbackGrantsAccess ==
    ( /\ la_agent = "entitlement_agent"
      /\ la_return = "dict"
      /\ \E i \in 1..Len(la_steps) :
            /\ la_steps[i].step = "make_access_decision"
            /\ la_steps[i].reply \in LlmFailures )
    => ( /\ \A i \in 1..Len(la_steps) :
              la_steps[i].step = "make_access_decision" =>
                 /\ la_steps[i].result = "fallback"
                 /\ la_steps[i].decision = "approve_with_conditions"
         /\ access_granted(la_steps) )

\* C26: after a parallel execution, the i-th entry of the tool results belongs
\* to the i-th tool a call was made for, and an error entry carries the id of
\* that tool, also when selected ids were skipped as undiscovered
C26_ErrorNamesFailedTool ==
    (da_pc = "executed" /\ da_selection.execution_strategy = "parallel") =>
        LET tasks == Tasks(available_tools, da_selection.selected_tools) IN
          /\ Len(da_results) = Len(tasks)
          /\ \A i \in 1..Len(da_results) :
               da_results[i].status = "error" => da_results[i].tool = tasks[i]

\* C27 as stated: no execution record stays in its initial running state, and
\* the record a call of execute created ends COMPLETED when the agent logic
\* returned and FAILED when it raised
C27_AsStated ==
    /\ \A i \in 1..Len(executions) : executions[i].status \in {"completed", "failed"}
    /\ (exec_call.agent # "None" /\ exec_call.create = "ok") =>
          executions[Len(executions)].status =
             IF exec_call.logic = "returns" THEN "completed" ELSE "failed"

\* C27, amended: whenever execute returned a dict, the record it created has
\* received its one terminal update: COMPLETED when the logic returned and the
\* COMPLETED update succeeded, FAILED when the logic raised or the COMPLETED
\* update raised; a record stays running only when the FAILED update raised,
\* and then execute raised; a call whose create raised made no record
C27_TerminalUpdate ==
    /\ (exec_call.agent # "None" /\ exec_call.create = "ok") =>
          LET record == executions[Len(executions)] IN
            /\ record.agent_type = exec_call.agent
            /\ exec_return.kind = "dict" =>
                 record.status =
                    IF exec_call.logic = "returns" /\ exec_call.upd_completed = "ok"
                    THEN "completed" ELSE "failed"
            /\ record.status = "running" <=> exec_return.kind = "raise"
            /\ record.status = "running" => exec_call.upd_failed = "raise"
            /\ record.status = exec_return.status \/ exec_return.kind = "raise"
    /\ \A i \in 1..Len(executions) :
          executions[i].status \in {"completed", "failed", "running"}
    /\ (exec_call.agent # "None" /\ exec_call.create = "raise") =>
          exec_return.kind = "raise"

\* C27 witness: the logic returned, the COMPLETED update raised and the record
\* was updated to FAILED, after an earlier record had been left running
C27_Witness ==
    /\ exec_call.create = "ok"
    /\ exec_call.logic = "returns"
    /\ exec_call.upd_completed = "raise"
    /\ Len(executions) = 2
    /\ executions[1].status = "running"
    /\ executions[2].status = "failed"

\* C28: in every state of a run, the fallback decision is the first agent in
\* the order metadata, entitlement, data, aggregation whose result field is
\* unset; it is "complete" exactly when all four fields are set; it is never
\* "error"; and a supervisor run that fell back decided exactly this
C28_FallbackOrder ==
    LET fixed == <<"metadata_agent", "entitlement_agent", "data_agent",
                   "aggregation_agent">>
        unset == { i \in 1..4 : ResultOf(fixed[i]) = NoneVal }
    IN /\ fallback_decision_logic # "error"
       /\ fallback_decision_logic = "complete" <=> AllResultsSet
       /\ unset = {} <=> AllResultsSet
       /\ unset # {} =>
            \E i \in unset : /\ fallback_decision_logic = fixed[i]
                             /\ \A j \in unset : i <= j
       /\ (llm_response.called /\ UsesFallback(llm_response)) =>
            next_agent = fallback_decision_logic

\* C28 witness: the supervisor fell back in a state where aggregation_results
\* was already set and data_results was not, and decided data_agent
C28_Witness ==
    /\ llm_response.called
    /\ UsesFallback(llm_response)
    /\ metadata_results # NoneVal
    /\ entitlement_results # NoneVal
    /\ data_results = NoneVal
    /\ aggregation_results # NoneVal
    /\ next_agent = "data_agent"
    /\ node = "data_agent"

\* C29: when the server answered a tools/call request of the data agent (id 1,
\* a params object with the tool's name and an arguments object) with a
\* JSON-RPC result, the data agent records the tool execution with status
\* "success", whatever the size of the result
C29_ResultMeansSuccess ==
    ( /\ mcp_request.method = "tools/call"
      /\ mcp_request.id = "1"
      /\ mcp_request.params = "dict"
      /\ mcp_request.arguments = "dict"
      /\ mcp_reply.kind = "result" )
    => tool_execution_status(mcp_reply) = "success"

====
